---- MODULE Spec2Model ----
(***************************************************************************)
(* A model of the HTML post-processing pipeline of streamlit_app.py (WP    *)
(* Auto Writer).  Documents are sequences of characters; every character   *)
(* is a one-element label ("<", "h", "2", ...; "ma", "to", "me" stand for   *)
(* the three characters of the closing marker).  The regular expressions   *)
(* of the source are written out as scanners over these sequences.         *)
(***************************************************************************)
EXTENDS Integers, Sequences, FiniteSets, TLC

VARIABLES
    op,            \* the operation whose result the state holds ("input" before any)
    html,          \* the document given to the operation (the LLM's answer, for the handler)
    keyword,       \* the topic keyword
    num,           \* the numeric argument (total_h2 / max_count / limit)
    out,           \* the operation's result
    out2,          \* the result of applying the operation to its own result
    pc,            \* where the article generation handler stands
    session_state, \* st.session_state: assembled_html and edited_html
    widgets,       \* min_chars, max_chars, strict_chars, max_adjust_tries, structure_html
    locals,        \* the handler's html_cur and tries
    calls,         \* what the adjustment loop has done so far: iterations run,
                   \* fill requests sent to the LLM, and the last branch taken
    llm,           \* the answer of the LLM held for a request (<<>>: none)
    cache          \* what the policy cache file holds

fun_vars == <<op, html, keyword, num, out, out2>>
gen_vars == <<pc, session_state, widgets, locals, calls, llm, cache>>
vars == <<fun_vars, gen_vars>>

----------------------------------------------------------------------------
(* Bounds of the model. *)

MaxFrags == 4        \* fragments per generated level-2 document
MaxTotal == 4        \* largest total_h2 / max_count tried
MaxPFrags == 4       \* fragments per generated paragraph document
MaxLimit == 3        \* largest character limit tried
MaxSanFrags == 4     \* fragments per generated sanitizer input
MaxGenFrags == 3     \* fragments per LLM answer
ExtraChars == 4      \* how far above its least value min_chars / max_chars is tried
CharScale == 100     \* characters of text one model character stands for
MaxValFrags == 4     \* fragments per document given to the validator
MaxPubFrags == 2     \* fragments per document held when publishing
MaxOutFrags == 3     \* fragments per structure answered by the LLM
MaxCapFrags == 3     \* fragments per document given to cap_summary
MaxTagFrags == 3     \* fragments per document of whole tags given to the sanitizer
MaxFiles == 2        \* files given to the uploader in one run of the script
MaxH2Top == 4        \* largest value taken from the number inputs max_h2, min_h2

----------------------------------------------------------------------------
(* Characters and strings. *)

\* str.strip() / rstrip() and \s: the whitespace characters of the model
Whitespace == {" ", "\n", "\r"}

\* re.IGNORECASE on the ASCII letters the model uses
Lower(c) ==
    CASE c = "H" -> "h"
      [] c = "P" -> "p"
      [] c = "B" -> "b"
      [] c = "R" -> "r"
      [] c = "U" -> "u"
      [] c = "L" -> "l"
      [] OTHER -> c

\* min(a, b) and max(a, b)
Min(a, b) == IF a <= b THEN a ELSE b
Max(a, b) == IF a >= b THEN a ELSE b

\* html[a:b] with 1-based a and exclusive end b
Slice(s, a, b) == SubSeq(s, a, b - 1)

RECURSIVE Concat(_)
Concat(ss) == IF ss = <<>> THEN <<>> ELSE Head(ss) \o Concat(Tail(ss))

\* the literal pat occurs in s at position i, letters compared case-insensitively
MatchAt(s, i, pat) ==
    /\ i >= 1
    /\ i + Len(pat) - 1 <= Len(s)
    /\ \A k \in 1..Len(pat) : Lower(s[i + k - 1]) = pat[k]

\* first position >= i at which pat occurs (0: none)
RECURSIVE Search(_, _, _)
Search(s, i, pat) ==
    IF i + Len(pat) - 1 > Len(s) THEN 0
    ELSE IF MatchAt(s, i, pat) THEN i
    ELSE Search(s, i + 1, pat)

\* first position >= i holding the character c exactly (0: none)
RECURSIVE IndexOf(_, _, _)
IndexOf(s, i, c) ==
    IF i > Len(s) THEN 0
    ELSE IF s[i] = c THEN i
    ELSE IndexOf(s, i + 1, c)

\* "needle in s" (exact comparison)
Contains(s, needle) ==
    \E i \in 1..(Len(s) - Len(needle) + 1) :
        \A k \in 1..Len(needle) : s[i + k - 1] = needle[k]

RECURSIVE lstrip(_)
lstrip(s) == IF s # <<>> /\ Head(s) \in Whitespace THEN lstrip(Tail(s)) ELSE s

RECURSIVE rstrip(_)
rstrip(s) ==
    IF s # <<>> /\ s[Len(s)] \in Whitespace THEN rstrip(SubSeq(s, 1, Len(s) - 1)) ELSE s

strip(s) == rstrip(lstrip(s))

\* the end of the run of \s characters that starts at j
RECURSIVE SpaceEnd(_, _)
SpaceEnd(s, j) == IF j <= Len(s) /\ s[j] \in Whitespace THEN SpaceEnd(s, j + 1) ELSE j

\* re.sub(r'<.*?>', '', s): without re.DOTALL "." does not cross a newline
RECURSIVE SubTags(_, _, _)
SubTags(s, i, dotall) ==
    IF i > Len(s) THEN <<>>
    ELSE IF s[i] = "<"
         THEN LET gt == IndexOf(s, i + 1, ">")
                  nl == IndexOf(s, i + 1, "\n")
              IN  IF gt # 0 /\ (dotall \/ nl = 0 \/ nl > gt)
                  THEN SubTags(s, gt + 1, dotall)
                  ELSE <<s[i]>> \o SubTags(s, i + 1, dotall)
         ELSE <<s[i]>> \o SubTags(s, i + 1, dotall)

----------------------------------------------------------------------------
(* The state of the article generation handler while it is not running. *)

NoSession == [assembled_html |-> <<>>, edited_html |-> <<>>]
NoCalls == [iterations |-> 0, fill_requests |-> 0, last |-> "none"]

\* CACHE_PATH does not exist
NoCache == [exists |-> FALSE]

GenOff ==
    /\ pc = "off"
    /\ session_state = NoSession
    /\ widgets = [min_chars |-> 0, max_chars |-> 0, strict_chars |-> FALSE,
                  max_adjust_tries |-> 0, structure_html |-> <<>>]
    /\ locals = [html_cur |-> <<>>, tries |-> 0]
    /\ calls = NoCalls
    /\ llm = <<>>
    /\ cache = NoCache


----------------------------------------------------------------------------
(* Level-2 headers. *)

H2Open == <<"<", "h", "2", ">">>
H2Close == <<"<", "/", "h", "2", ">">>

\* the closing marker "まとめ"
Marker == <<"ma", "to", "me">>

\* "に関するまとめ", the fixed part of the canonical closing title
SummarySuffix == <<"ni", "kan", "su", "ru">> \o Marker

\* H2_RE.finditer(s): the matches of <h2>.*?</h2> (IGNORECASE, DOTALL) from
\* position i on, each as [start, end) with the end exclusive
RECURSIVE H2Finditer(_, _)
H2Finditer(s, i) ==
    LET o == Search(s, i, H2Open) IN
    IF o = 0 THEN <<>>
    ELSE LET c == Search(s, o + Len(H2Open), H2Close) IN
         IF c = 0 THEN <<>>
         ELSE <<[start |-> o, end |-> c + Len(H2Close)]>>
                  \o H2Finditer(s, c + Len(H2Close))

\* H2_RE.match(chunk): a match that begins at the first character
H2Match(chunk) ==
    /\ MatchAt(chunk, 1, H2Open)
    /\ Search(chunk, 1 + Len(H2Open), H2Close) # 0

\* H2_RE.split(s): the pattern has one group, so texts and headers alternate
RECURSIVE SplitFrom(_, _, _)
SplitFrom(s, ms, last) ==
    IF ms = <<>> THEN <<Slice(s, last, Len(s) + 1)>>
    ELSE <<Slice(s, last, Head(ms).start), Slice(s, Head(ms).start, Head(ms).end)>>
             \o SplitFrom(s, Tail(ms), Head(ms).end)

H2Split(s) == SplitFrom(s, H2Finditer(s, 1), 1)

count_h2(s) == Len(H2Finditer(s, 1))

\* the while loop of trim_h2_max over parts, from index i
RECURSIVE TrimLoop(_, _, _, _)
TrimLoop(parts, i, h2_seen, max_count) ==
    IF i > Len(parts) THEN <<>>
    ELSE IF H2Match(parts[i])
         THEN (IF h2_seen + 1 <= max_count
               THEN parts[i] \o (IF i + 1 <= Len(parts) THEN parts[i + 1] ELSE <<>>)
               ELSE <<>>)
              \o TrimLoop(parts, i + 2, h2_seen + 1, max_count)
         ELSE (IF h2_seen = 0 THEN parts[i] ELSE <<>>)
              \o TrimLoop(parts, i + 1, h2_seen, max_count)

\* trim_h2_max with the header counted after the test (h2_seen < max_count + 1)
trim_h2_max_late_count(structure_html, max_count) ==
    TrimLoop(H2Split(structure_html), 1, 0, max_count + 1)

trim_h2_max(structure_html, max_count) ==
    TrimLoop(H2Split(structure_html), 1, 0, max_count)

\* the title test of strip_existing_summary_h2: group(1) with tags removed
\* (no DOTALL) and stripped
H2Title(s, m) ==
    strip(SubTags(Slice(s, m.start + Len(H2Open), m.end - Len(H2Close)), 1, FALSE))

IsSummaryTitle(title) == Contains(title, Marker)

\* the for loop of strip_existing_summary_h2 from match idx on
RECURSIVE StripLoop(_, _, _, _)
StripLoop(s, matches, idx, last_end) ==
    IF idx > Len(matches)
    THEN (IF last_end < Len(s) + 1 THEN Slice(s, last_end, Len(s) + 1) ELSE <<>>)
    ELSE LET m == matches[idx]
             next_start == IF idx + 1 <= Len(matches)
                           THEN matches[idx + 1].start ELSE Len(s) + 1
             block == Slice(s, m.start, next_start)
         IN  (IF IsSummaryTitle(H2Title(s, m))
              THEN <<>>
              ELSE (IF last_end < m.start THEN Slice(s, last_end, m.start) ELSE <<>>)
                   \o block)
             \o StripLoop(s, matches, idx + 1, next_start)

strip_existing_summary_h2(structure_html) ==
    strip(StripLoop(structure_html, H2Finditer(structure_html, 1), 1, 1))

\* f"\n<h2>{keyword}に関するまとめ</h2>\n"
summary_h2(kw) == <<"\n">> \o H2Open \o kw \o SummarySuffix \o H2Close \o <<"\n">>

\* enforce_summary_last with the whole total_h2 given to the content sections
enforce_summary_last_no_reserve(structure_html, kw, total_h2) ==
    LET stripped == strip_existing_summary_h2(structure_html)
        content_max == IF total_h2 > 0 THEN total_h2 ELSE 0
        trimmed == IF count_h2(stripped) > content_max
                   THEN trim_h2_max(stripped, content_max)
                   ELSE stripped
    IN  rstrip(trimmed) \o summary_h2(kw)

\* enforce_summary_last without the removal of the closing sections already there
enforce_summary_last_keep(structure_html, kw, total_h2) ==
    LET stripped == strip(structure_html)
        content_max == IF total_h2 - 1 > 0 THEN total_h2 - 1 ELSE 0
        trimmed == IF count_h2(stripped) > content_max
                   THEN trim_h2_max(stripped, content_max)
                   ELSE stripped
    IN  rstrip(trimmed) \o summary_h2(kw)

enforce_summary_last(structure_html, kw, total_h2) ==
    LET stripped == strip_existing_summary_h2(structure_html)
        content_max == IF total_h2 - 1 > 0 THEN total_h2 - 1 ELSE 0
        trimmed == IF count_h2(stripped) > content_max
                   THEN trim_h2_max(stripped, content_max)
                   ELSE stripped
    IN  rstrip(trimmed) \o summary_h2(kw)

----------------------------------------------------------------------------
(* Inputs of the level-2 operations: documents put together from fragments. *)

FragA == H2Open \o <<"a">> \o H2Close                       \* <h2>a</h2>
FragSummary == H2Open \o Marker \o H2Close                  \* <h2>まとめ</h2>
FragSplit ==                                                 \* <H2>ま<b>とめ </h2>
    <<"<", "H", "2", ">", "ma", "<", "b", ">", "to", "me", " ">> \o H2Close

H2Frags == {FragA, FragSummary, FragSplit, H2Open, H2Close, <<"x">>, <<"\n">>}

SeqsUpTo(S, n) == UNION {[1..k -> S] : k \in 0..n}

H2Docs == {Concat(fs) : fs \in SeqsUpTo(H2Frags, MaxFrags)}

Keywords == {<<"k">>}

InitH2 ==
    /\ op = "input"
    /\ html \in H2Docs
    /\ keyword \in Keywords
    /\ num \in 0..MaxTotal
    /\ out = <<>>
    /\ out2 = <<>>
    /\ GenOff

StripSummary ==
    /\ op = "input"
    /\ op' = "strip_existing_summary_h2"
    /\ out' = strip_existing_summary_h2(html)
    /\ UNCHANGED <<html, keyword, num, out2, gen_vars>>

TrimH2 ==
    /\ op = "input"
    /\ op' = "trim_h2_max"
    /\ out' = trim_h2_max(html, num)
    /\ UNCHANGED <<html, keyword, num, out2, gen_vars>>

Enforce ==
    /\ op = "input"
    /\ op' = "enforce_summary_last"
    /\ out' = enforce_summary_last(html, keyword, num)
    /\ UNCHANGED <<html, keyword, num, out2, gen_vars>>

EnforceAgain ==
    /\ op = "enforce_summary_last"
    /\ op' = "enforce_summary_last_twice"
    /\ out2' = enforce_summary_last(out, keyword, num)
    /\ UNCHANGED <<html, keyword, num, out, gen_vars>>

NextH2 == StripSummary \/ TrimH2 \/ Enforce \/ EnforceAgain

SpecH2 == InitH2 /\ [][NextH2]_vars

----------------------------------------------------------------------------
(* Visible length and trimming by paragraph units. *)

POpen == <<"<", "p", ">">>
PClose == <<"<", "/", "p", ">">>

\* len(re.sub(r'<.*?>', '', html, flags=re.DOTALL).strip())
visible_length(s) == Len(strip(SubTags(s, 1, TRUE)))

\* "$" without re.MULTILINE: the end of the string, or just before a final newline
AtDollar(s, k) == k = Len(s) + 1 \/ (k = Len(s) /\ s[k] = "\n")

\* the exclusive end of the match of (?si).*?(?:<p>.*?</p>|$) that starts at i,
\* the lazy .*? having reached k (0: no match); after an empty match the next
\* one must advance
RECURSIVE PUnitEnd(_, _, _, _)
PUnitEnd(s, i, k, must_advance) ==
    IF k > Len(s) + 1 THEN 0
    ELSE LET c == IF MatchAt(s, k, POpen) THEN Search(s, k + Len(POpen), PClose) ELSE 0 IN
         IF c # 0 THEN c + Len(PClose)
         ELSE IF AtDollar(s, k) /\ (~must_advance \/ k > i) THEN k
         ELSE PUnitEnd(s, i, k + 1, must_advance)

\* re.findall(r'(?si).*?(?:<p>.*?</p>|$)', s): the units, empty matches included
RECURSIVE PFindall(_, _, _)
PFindall(s, i, must_advance) ==
    LET e == PUnitEnd(s, i, i, must_advance) IN
    IF e = 0 THEN <<>>
    ELSE <<Slice(s, i, e)>> \o PFindall(s, e, e = i)

\* the for loop of trim_to_max_chars and of _trim_by_p: units are added while
\* the visible length of what is kept stays within the limit
RECURSIVE PLoop(_, _, _, _)
PLoop(parts, i, acc, limit) ==
    IF i > Len(parts) THEN acc
    ELSE IF visible_length(acc \o parts[i]) <= limit
         THEN PLoop(parts, i + 1, acc \o parts[i], limit)
         ELSE acc

\* s[:limit] for limit >= 0
Prefix(s, limit) == SubSeq(s, 1, IF limit < Len(s) THEN limit ELSE Len(s))

_trim_by_p(html_block, limit) ==
    LET kept == PLoop(PFindall(html_block, 1, FALSE), 1, <<>>, limit) IN
    IF kept # <<>> THEN kept ELSE Prefix(html_block, limit)

\* the for loop with each unit measured alone instead of the accumulated text
RECURSIVE PLoopEach(_, _, _, _)
PLoopEach(parts, i, acc, limit) ==
    IF i > Len(parts) THEN acc
    ELSE IF visible_length(parts[i]) <= limit
         THEN PLoopEach(parts, i + 1, acc \o parts[i], limit)
         ELSE acc

\* trim_to_max_chars with that loop
trim_to_max_chars_each(s, limit) ==
    IF visible_length(s) <= limit THEN s
    ELSE LET kept == PLoopEach(PFindall(s, 1, FALSE), 1, <<>>, limit) IN
         IF kept # <<>> THEN kept ELSE Prefix(s, limit)

trim_to_max_chars(s, limit) ==
    IF visible_length(s) <= limit THEN s
    ELSE LET kept == PLoop(PFindall(s, 1, FALSE), 1, <<>>, limit) IN
         IF kept # <<>> THEN kept ELSE Prefix(s, limit)

----------------------------------------------------------------------------
(* The closing section of a generated article. *)

\* re.search(r'(?i)<h2>[^<]*まとめ[^<]*</h2>', html) tried at position i: the
\* text from <h2> to the next "<" holds the marker, and that "<" opens </h2>
HasSummaryAt(s, i) ==
    /\ MatchAt(s, i, H2Open)
    /\ LET lt == IndexOf(s, i + Len(H2Open), "<") IN
       /\ lt # 0
       /\ MatchAt(s, lt, H2Close)
       /\ Contains(Slice(s, i + Len(H2Open), lt), Marker)

_has_summary(s) == \E i \in 1..Len(s) : HasSummaryAt(s, i)

\* "はじめに" and "まとめ", the titles _extract_h2_titles leaves out
BoilerplateTitles == {<<"ha", "ji", "me", "ni">>, Marker}

RECURSIVE SelectSeq2(_, _)
SelectSeq2(ts, drop) ==
    IF ts = <<>> THEN <<>>
    ELSE (IF Head(ts) = <<>> \/ Head(ts) \in drop THEN <<>> ELSE <<Head(ts)>>)
         \o SelectSeq2(Tail(ts), drop)

_extract_h2_titles(s) ==
    LET ms == H2Finditer(s, 1) IN
    SelectSeq2([i \in 1..Len(ms) |-> H2Title(s, ms[i])], BoilerplateTitles)

\* the sentences of the fallback summary, each written as one character:
\* "本記事のポイントを簡潔に整理します。", "の要点を確認しましょう。",
\* "本記事の要点を振り返りましょう。", "詳細は各セクションを参照し、実践へつなげてください。"
SentencePoints == <<"S_points">>
SentenceCheck == <<"S_check">>
SentenceReview == <<"S_review">>
SentenceDetail == <<"S_detail">>

Tag(name) == <<"<">> \o name \o <<">">>
EndTag(name) == <<"<", "/">> \o name \o <<">">>

RECURSIVE Bullets(_)
Bullets(heads) ==
    IF heads = <<>> THEN <<>>
    ELSE Tag(<<"l", "i">>) \o Head(heads) \o SentenceCheck \o EndTag(<<"l", "i">>)
         \o Bullets(Tail(heads))

_append_fallback_summary(s) ==
    LET titles == _extract_h2_titles(s)
        heads == SubSeq(titles, 1, Min(3, Len(titles)))
        bullets == IF heads # <<>> THEN Bullets(heads)
                   ELSE Tag(<<"l", "i">>) \o SentenceReview \o EndTag(<<"l", "i">>)
        fallback == <<"\n">> \o H2Open \o Marker \o H2Close \o <<"\n">>
                    \o POpen \o SentencePoints \o PClose \o <<"\n">>
                    \o Tag(<<"u", "l">>) \o bullets \o EndTag(<<"u", "l">>) \o <<"\n">>
                    \o POpen \o SentenceDetail \o PClose \o <<"\n">>
    IN  rstrip(s) \o <<"\n", "\n">> \o fallback

\* re.search(r'(?i)<h2>\s*まとめ\s*</h2>', html) tried at position i: the
\* exclusive end of the match (0: no match)
SummaryHeaderEnd(s, i) ==
    IF ~MatchAt(s, i, H2Open) THEN 0
    ELSE LET a == SpaceEnd(s, i + Len(H2Open))
             b == SpaceEnd(s, a + Len(Marker))
         IN  IF MatchAt(s, a, Marker) /\ MatchAt(s, b, H2Close)
             THEN b + Len(H2Close) ELSE 0

\* _summary_span: [start, end) of the section of the first such header, or
\* <<>> for None
_summary_span(s) ==
    LET starts == {i \in 1..Len(s) : SummaryHeaderEnd(s, i) # 0} IN
    IF starts = {} THEN <<>>
    ELSE LET start == CHOOSE i \in starts : \A j \in starts : i <= j
             m_end == SummaryHeaderEnd(s, start)
             m2 == Search(s, m_end, H2Open)
         IN  <<start, IF m2 # 0 THEN m2 ELSE Len(s) + 1>>

cap_summary(s, limit_chars) ==
    LET span == _summary_span(s) IN
    IF span = <<>> THEN s
    ELSE Slice(s, 1, span[1])
         \o _trim_by_p(Slice(s, span[1], span[2]), limit_chars)
         \o Slice(s, span[2], Len(s) + 1)


----------------------------------------------------------------------------
(* Inputs of the length operations. *)

FragPa == POpen \o <<"a">> \o PClose                         \* <p>a</p>
FragPbc == <<"<", "P", ">", "b", "c", "<", "/", "P", ">">>   \* <P>bc</P>

PFrags == {FragPa, FragPbc, POpen, PClose, <<"<", "b", ">">>, <<"x">>, <<"\n">>}

PDocs == {Concat(fs) : fs \in SeqsUpTo(PFrags, MaxPFrags)}

InitTrim ==
    /\ op = "input"
    /\ html \in PDocs
    /\ keyword = <<>>
    /\ num \in 0..MaxLimit
    /\ out = <<>>
    /\ out2 = <<>>
    /\ GenOff

TrimChars ==
    /\ op = "input"
    /\ op' = "trim_to_max_chars"
    /\ out' = trim_to_max_chars(html, num)
    /\ UNCHANGED <<html, keyword, num, out2, gen_vars>>

TrimByP ==
    /\ op = "input"
    /\ op' = "_trim_by_p"
    /\ out' = _trim_by_p(html, num)
    /\ UNCHANGED <<html, keyword, num, out2, gen_vars>>

NextTrim == TrimChars \/ TrimByP

SpecTrim == InitTrim /\ [][NextTrim]_vars


----------------------------------------------------------------------------
(* The sanitizer. *)

ALLOWED_TAGS ==
    { <<"h", "2">>, <<"h", "3">>, <<"p">>, <<"s", "t", "r", "o", "n", "g">>,
      <<"e", "m">>, <<"u", "l">>, <<"o", "l">>, <<"l", "i">>,
      <<"t", "a", "b", "l", "e">>, <<"t", "r">>, <<"t", "h">>, <<"t", "d">> }

\* the characters of the model that \w does not match
NonWord == {"<", ">", "/", " ", "\n"}

IsWord(c) == c \notin NonWord

\* tag.lower()
LowerSeq(t) == [k \in 1..Len(t) |-> Lower(t[k])]

\* the end of the run of \w characters that starts at j
RECURSIVE WordEnd(_, _)
WordEnd(s, j) == IF j <= Len(s) /\ IsWord(s[j]) THEN WordEnd(s, j + 1) ELSE j

\* where the name starts in a match of "</?" at i
AfterSlash(s, i) == IF i + 1 <= Len(s) /\ s[i + 1] = "/" THEN i + 2 ELSE i + 1

\* re.findall(r'</?(\w+)[^>]*>', s) from position i: the set of the names found
RECURSIVE TagNames(_, _)
TagNames(s, i) ==
    IF i > Len(s) THEN {}
    ELSE LET j == AfterSlash(s, i)
             e == WordEnd(s, j)
             gt == IndexOf(s, e, ">")
         IN  IF s[i] = "<" /\ e > j /\ gt # 0
             THEN {Slice(s, j, e)} \cup TagNames(s, gt + 1)
             ELSE TagNames(s, i + 1)

\* re.sub(rf'</?{tag}[^>]*>', '', s, flags=re.IGNORECASE) from position i
RECURSIVE SubTag(_, _, _)
SubTag(s, i, tag) ==
    IF i > Len(s) THEN <<>>
    ELSE LET j == AfterSlash(s, i)
             gt == IndexOf(s, j + Len(tag), ">")
         IN  IF s[i] = "<" /\ MatchAt(s, j, LowerSeq(tag)) /\ gt # 0
             THEN SubTag(s, gt + 1, tag)
             ELSE <<s[i]>> \o SubTag(s, i + 1, tag)

\* re.sub(r'<br\s*/?>', '', s, flags=re.IGNORECASE) from position i
RECURSIVE SubBr(_, _)
SubBr(s, i) ==
    IF i > Len(s) THEN <<>>
    ELSE LET j == SpaceEnd(s, i + 3)
             g == IF j <= Len(s) /\ s[j] = "/" THEN j + 1 ELSE j
         IN  IF MatchAt(s, i, <<"<", "b", "r">>) /\ g <= Len(s) /\ s[g] = ">"
             THEN SubBr(s, g + 1)
             ELSE <<s[i]>> \o SubBr(s, i + 1)

\* the for loop of simplify_html over set(tags): the set has no order the code
\* fixes, so every order of the tags still to visit is a possible run
RECURSIVE RemoveTags(_, _)
RemoveTags(s, tags) ==
    IF tags = {} THEN {s}
    ELSE UNION { RemoveTags(IF LowerSeq(tag) \notin ALLOWED_TAGS
                            THEN SubTag(s, 1, tag) ELSE s,
                            tags \ {tag}) : tag \in tags }

\* simplify_html: the set of the results the call can return
simplify_html(s) == {SubBr(r, 1) : r \in RemoveTags(s, TagNames(s, 1))}

----------------------------------------------------------------------------
(* Inputs of the sanitizer. *)

SanFrags ==
    { <<"<">>, <<">">>, <<"/">>, <<"b">>, <<"r">>, <<" ">>,
      <<"<", "b", ">">>, <<"<", "p", ">">>, <<"<", "B", "R", "/", ">">> }

SanDocs == {Concat(fs) : fs \in SeqsUpTo(SanFrags, MaxSanFrags)}

InitSan ==
    /\ op = "input"
    /\ html \in SanDocs
    /\ keyword = <<>>
    /\ num = 0
    /\ out = <<>>
    /\ out2 = <<>>
    /\ GenOff

Simplify ==
    /\ op = "input"
    /\ op' = "simplify_html"
    /\ out' \in simplify_html(html)
    /\ UNCHANGED <<html, keyword, num, out2, gen_vars>>

SimplifyAgain ==
    /\ op = "simplify_html"
    /\ op' = "simplify_html_twice"
    /\ out2' \in simplify_html(out)
    /\ UNCHANGED <<html, keyword, num, out, gen_vars>>

NextSan == Simplify \/ SimplifyAgain

SpecSan == InitSan /\ [][NextSan]_vars

\* documents of whole tags: allowed ones, and disallowed ones whose name
\* begins an allowed name
TagFrags ==
    { Tag(<<"u">>), Tag(<<"u", "l">>), EndTag(<<"u", "l">>), Tag(<<"l", "i">>),
      Tag(<<"s">>), Tag(<<"s", "t", "r", "o", "n", "g">>), <<"x">> }

TagDocs == {Concat(fs) : fs \in SeqsUpTo(TagFrags, MaxTagFrags)}

InitTags ==
    /\ op = "input"
    /\ html \in TagDocs
    /\ keyword = <<>>
    /\ num = 0
    /\ out = <<>>
    /\ out2 = <<>>
    /\ GenOff

SpecTags == InitTags /\ [][NextSan]_vars


----------------------------------------------------------------------------
(* The article generation handler and its length adjustment loop.          *)
(* Lengths are counted in units of CharScale characters: one character of  *)
(* a model document stands for CharScale characters of text, and the       *)
(* character counts of the source are divided by CharScale.                *)

Scaled(n) == n \div CharScale

\* what the number inputs and the code fix
MinCharsFloor == 500      \* min_value of "本文の最小文字数"
MaxCharsFloor == 800      \* min_value of "本文の最大文字数"
MaxAdjustTries == 3       \* max_value of "自動調整の最大回数"
MinFillChars == 100       \* a fill answer shorter than this is not used
SummaryLimit == 320       \* limit_chars given to cap_summary

MinCharsChoices == {Scaled(MinCharsFloor), Scaled(MinCharsFloor) + ExtraChars}
MaxCharsChoices == {Scaled(MaxCharsFloor), Scaled(MaxCharsFloor) + ExtraChars}

FragP4 == POpen \o <<"a", "a", "a", "a">> \o PClose         \* <p>aaaa</p>

\* what the LLM may answer
GenFrags == {FragP4, FragPa, FragSummary, FragA, <<"<", "b", ">">>, <<"x">>}
GenDocs == {Concat(fs) : fs \in SeqsUpTo(GenFrags, MaxGenFrags)}
FillAnswers == {<<>>, FragP4}

\* call_gemini raises instead of answering
Raises == <<"RuntimeError">>
FillReplies == FillAnswers \cup {Raises}

GenKeywords == Keywords \cup {<<" ">>}
StructureChoices == {<<>>, FragA}

InitGen ==
    /\ op = "input"
    /\ html = <<>>
    /\ keyword \in GenKeywords
    /\ num = 0
    /\ out = <<>>
    /\ out2 = <<>>
    /\ pc = "idle"
    /\ session_state = NoSession
    /\ widgets \in [min_chars : MinCharsChoices, max_chars : MaxCharsChoices,
                    strict_chars : BOOLEAN, max_adjust_tries : 0..MaxAdjustTries,
                    structure_html : StructureChoices]
    /\ locals = [html_cur |-> <<>>, tries |-> 0]
    /\ calls = NoCalls
    /\ llm = <<>>
    /\ cache = NoCache

\* the two guards of the button handler
GenInputsGiven == strip(keyword) # <<>> /\ strip(widgets.structure_html) # <<>>

\* st.error(...); st.stop(): nothing is generated
GenerateStopped ==
    /\ pc = "idle"
    /\ ~GenInputsGiven
    /\ pc' = "stopped"
    /\ UNCHANGED <<fun_vars, session_state, widgets, locals, calls, llm, cache>>

\* call_gemini raises (no key, or a status other than 200): the handler ends there
GenerateFailed ==
    /\ pc = "idle"
    /\ GenInputsGiven
    /\ pc' = "failed"
    /\ UNCHANGED <<fun_vars, session_state, widgets, locals, calls, llm, cache>>

\* the answer is sanitized and stored, and the fallback summary appended when
\* the answer has no closing section; with strict control the loop is entered
Generate ==
    /\ pc = "idle"
    /\ GenInputsGiven
    /\ \E answer \in GenDocs :
         \E full \in simplify_html(answer) :
           LET edited == IF full # <<>> /\ ~_has_summary(full)
                         THEN _append_fallback_summary(full) ELSE full
           IN  /\ html' = answer
               /\ session_state' = [assembled_html |-> full, edited_html |-> edited]
               /\ IF widgets.strict_chars
                  THEN /\ locals' = [html_cur |-> edited, tries |-> 0]
                       /\ llm' \in FillReplies
                       /\ pc' = "loop"
                  ELSE /\ locals' = locals
                       /\ llm' = llm
                       /\ pc' = "done"
    /\ UNCHANGED <<op, keyword, num, out, out2, widgets, calls, cache>>

LoopGuardLe(tries, max_adjust_tries) == tries <= max_adjust_tries

\* while tries < max_adjust_tries
LoopGuard(tries, max_adjust_tries) == tries < max_adjust_tries

\* the names the fill request reads, and those of them no statement of the
\* script assigns: reading one raises NameError inside the try block
FillRequestNames == {"keyword", "co_terms", "content", "needed_chars"}
UnboundNames == {"content", "needed_chars"}

\* leaving the loop with the exception of the fill request not caught
LeaveLoopUncaught(branch, html_cur, requests) ==
    /\ pc' = IF branch = "fill_error" THEN "failed" ELSE "after_loop"
    /\ locals' = [locals EXCEPT !.html_cur = html_cur]
    /\ calls' = [iterations |-> calls.iterations + 1,
                 fill_requests |-> calls.fill_requests + requests,
                 last |-> branch]
    /\ llm' = <<>>

\* leaving the loop by break
LeaveLoop(branch, html_cur, requests) ==
    /\ pc' = "after_loop"
    /\ locals' = [locals EXCEPT !.html_cur = html_cur]
    /\ calls' = [iterations |-> calls.iterations + 1,
                 fill_requests |-> calls.fill_requests + requests,
                 last |-> branch]
    /\ llm' = <<>>

\* one test of the while condition and, when it holds, one run of the body
LoopStep ==
    /\ pc = "loop"
    /\ IF ~LoopGuard(locals.tries, widgets.max_adjust_tries)
       THEN /\ pc' = "after_loop"
            /\ calls' = [calls EXCEPT !.last = "exhausted"]
            /\ llm' = <<>>
            /\ UNCHANGED locals
       ELSE LET html_cur == locals.html_cur
                cur_len == visible_length(html_cur)
                need == Min(widgets.min_chars - cur_len, widgets.max_chars - cur_len)
            IN  IF cur_len < widgets.min_chars
                THEN IF need <= 0
                     THEN LeaveLoop("no_need", html_cur, 0)
                     ELSE IF FillRequestNames \cap UnboundNames # {}
                     THEN LeaveLoop("fill_error", html_cur, 0)
                     ELSE IF llm = Raises
                            THEN LeaveLoop("fill_error", html_cur, 1)
                            ELSE \E add \in simplify_html(strip(llm)) :
                                   IF add = <<>> \/ visible_length(add) < Scaled(MinFillChars)
                                   THEN LeaveLoop("fill_unusable", html_cur, 1)
                                   ELSE /\ pc' = "loop"
                                        /\ locals' = [html_cur |-> rstrip(html_cur) \o <<"\n", "\n">> \o add,
                                                      tries |-> locals.tries + 1]
                                        /\ calls' = [iterations |-> calls.iterations + 1,
                                                     fill_requests |-> calls.fill_requests + 1,
                                                     last |-> "fill"]
                                        /\ llm' \in FillReplies
                ELSE IF cur_len > widgets.max_chars
                THEN LeaveLoop("trim", trim_to_max_chars(html_cur, widgets.max_chars), 0)
                ELSE LeaveLoop("satisfied", html_cur, 0)
    /\ UNCHANGED <<fun_vars, session_state, widgets, cache>>

\* Finish without the cut of the whole document to max_chars
FinishNoCut ==
    /\ pc = "after_loop"
    /\ LET html_cur == locals.html_cur
           capped == cap_summary(html_cur, Scaled(SummaryLimit))
       IN  IF html_cur # <<>>
           THEN /\ session_state' = [assembled_html |-> capped, edited_html |-> capped]
                /\ locals' = [locals EXCEPT !.html_cur = capped]
           ELSE /\ session_state' = [session_state EXCEPT !.edited_html = html_cur]
                /\ locals' = locals
    /\ pc' = "done"
    /\ UNCHANGED <<fun_vars, widgets, calls, llm, cache>>

\* after the loop: the document is stored, the closing section capped and the
\* whole cut to max_chars
Finish ==
    /\ pc = "after_loop"
    /\ LET html_cur == locals.html_cur
           capped == cap_summary(html_cur, Scaled(SummaryLimit))
           cut == IF visible_length(capped) > widgets.max_chars
                  THEN trim_to_max_chars(capped, widgets.max_chars) ELSE capped
       IN  IF html_cur # <<>>
           THEN /\ session_state' = [assembled_html |-> cut, edited_html |-> cut]
                /\ locals' = [locals EXCEPT !.html_cur = cut]
           ELSE /\ session_state' = [session_state EXCEPT !.edited_html = html_cur]
                /\ locals' = locals
    /\ pc' = "done"
    /\ UNCHANGED <<fun_vars, widgets, calls, llm, cache>>

NextGen == GenerateStopped \/ GenerateFailed \/ Generate \/ LoopStep \/ Finish

SpecGen == InitGen /\ [][NextGen]_vars

\* LoopStep and Finish are total in their state: ENABLED <<LoopStep>>_vars is
\* pc = "loop" (the step changes pc or locals.tries), ENABLED <<Finish>>_vars
\* is pc = "after_loop"
LoopStepEnabled == pc = "loop"
FinishEnabled == pc = "after_loop"

\* the script runs the handler to its end once the button is pressed: the
\* guards stop it, the first request is answered (Generate) or raises, and
\* every later step is taken. The last two conjuncts are WF_vars(LoopStep)
\* and WF_vars(Finish) with ENABLED written as the state predicates above.
SpecGenFair ==
    /\ SpecGen
    /\ WF_vars(GenerateStopped)
    /\ WF_vars(GenerateFailed)
    /\ ([]<>~LoopStepEnabled \/ []<><<LoopStep>>_vars)
    /\ ([]<>~FinishEnabled \/ []<><<Finish>>_vars)


----------------------------------------------------------------------------
(* The structural validator. *)

MaxArticleChars == 6000   \* the length over which the whole article is reported
MinParagraphs == 3        \* fewest <p> under an <h3> that is not reported
MaxParagraphs == 6        \* most <p> under an <h3> that is not reported

H3Open == <<"<", "h", "3", ">">>
H3Close == <<"<", "/", "h", "3", ">">>

\* re '<h4|<script|<style'
ForbiddenPatterns ==
    { <<"<", "h", "4">>, <<"<", "s", "c", "r", "i", "p", "t">>,
      <<"<", "s", "t", "y", "l", "e">> }

\* re '<(ul|ol|table)' without the \b
ListPatterns == { <<"<", "u", "l">>, <<"<", "o", "l">>, <<"<", "t", "a", "b", "l", "e">> }

\* re '<(ul|ol|table)\b' matches at position i
ListAt(s, i) ==
    \E pat \in ListPatterns :
        /\ MatchAt(s, i, pat)
        /\ (i + Len(pat) > Len(s) \/ ~IsWord(s[i + Len(pat)]))

\* re.search(r'<(ul|ol|table)\b', s) from position i on
RECURSIVE SearchList(_, _)
SearchList(s, i) == IF i > Len(s) THEN FALSE ELSE ListAt(s, i) \/ SearchList(s, i + 1)

\* one warning for each <h2> section that has no list or table, from match i on
RECURSIVE SectionWarns(_, _, _)
SectionWarns(s, h2_iter, i) ==
    IF i > Len(h2_iter) THEN <<>>
    ELSE LET start == h2_iter[i].end
             end == IF i + 1 <= Len(h2_iter) THEN h2_iter[i + 1].start ELSE Len(s) + 1
             section == Slice(s, start, end)
         IN  (IF ~SearchList(section, 1) THEN <<"h2_without_list_or_table">> ELSE <<>>)
                 \o SectionWarns(s, h2_iter, i + 1)

\* re.finditer(r'(<h3>.*?</h3>)', s) from position i on
RECURSIVE H3Finditer(_, _)
H3Finditer(s, i) ==
    LET o == Search(s, i, H3Open) IN
    IF o = 0 THEN <<>>
    ELSE LET c == Search(s, o + Len(H3Open), H3Close) IN
         IF c = 0 THEN <<>>
         ELSE <<[start |-> o, end |-> c + Len(H3Close)]>>
                  \o H3Finditer(s, c + Len(H3Close))

\* re.search(r'(<h2>|<h3>)', s[start:]): its position in s (0: none)
NextHead(s, start) ==
    LET a == Search(s, start, H2Open)
        b == Search(s, start, H3Open)
    IN  IF a = 0 THEN b ELSE IF b = 0 THEN a ELSE Min(a, b)

\* len(re.findall(r'<p>.*?</p>', block)) from position i on
RECURSIVE PCount(_, _)
PCount(block, i) ==
    LET o == Search(block, i, POpen) IN
    IF o = 0 THEN 0
    ELSE LET c == Search(block, o + Len(POpen), PClose) IN
         IF c = 0 THEN 0 ELSE 1 + PCount(block, c + Len(PClose))

\* one warning for each <h3> whose block has too few or too many <p>
RECURSIVE BlockWarns(_, _, _)
BlockWarns(s, h3_positions, i) ==
    IF i > Len(h3_positions) THEN <<>>
    ELSE LET start == h3_positions[i].end
             next_head == NextHead(s, start)
             end == IF next_head # 0 THEN next_head ELSE Len(s) + 1
             p_count == PCount(Slice(s, start, end), 1)
         IN  (IF p_count < MinParagraphs \/ p_count > MaxParagraphs
              THEN <<"h3_paragraph_count">> ELSE <<>>)
                 \o BlockWarns(s, h3_positions, i + 1)

\* validate_article with the section warning given once for the whole document
validate_article_once(s) ==
    (IF \E pat \in ForbiddenPatterns : Search(s, 1, pat) # 0
     THEN <<"forbidden_tag">> ELSE <<>>)
    \o (IF SubBr(s, 1) # s THEN <<"br">> ELSE <<>>)
    \o (IF SectionWarns(s, H2Finditer(s, 1), 1) # <<>>
        THEN <<"h2_without_list_or_table">> ELSE <<>>)
    \o BlockWarns(s, H3Finditer(s, 1), 1)
    \o (IF Len(strip(SubTags(s, 1, FALSE))) > Scaled(MaxArticleChars)
        THEN <<"too_long">> ELSE <<>>)

\* validate_article: the warnings, in the order of the checks
validate_article(s) ==
    (IF \E pat \in ForbiddenPatterns : Search(s, 1, pat) # 0
     THEN <<"forbidden_tag">> ELSE <<>>)
    \o (IF SubBr(s, 1) # s THEN <<"br">> ELSE <<>>)
    \o SectionWarns(s, H2Finditer(s, 1), 1)
    \o BlockWarns(s, H3Finditer(s, 1), 1)
    \o (IF Len(strip(SubTags(s, 1, FALSE))) > Scaled(MaxArticleChars)
        THEN <<"too_long">> ELSE <<>>)

FragH3 == H3Open \o <<"a">> \o H3Close                       \* <h3>a</h3>
FragUL == <<"<", "U", "L", ">">>                             \* <UL>
FragOl == <<"<", "o", "l", " ", "x", ">">>                   \* <ol x>
FragUlx == <<"<", "u", "l", "x", ">">>                       \* <ulx>

ValFrags == {FragA, FragH3, FragPa, FragUL, FragOl, FragUlx,
             <<"<", "t", "a", "b", "l", "e">>, <<"<", "b", "r", ">">>, <<"<", "h", "4", ">">>}
ValDocs == {Concat(fs) : fs \in SeqsUpTo(ValFrags, MaxValFrags)}

InitVal ==
    /\ op = "input"
    /\ html \in ValDocs
    /\ keyword = <<>>
    /\ num = 0
    /\ out = <<>>
    /\ out2 = <<>>
    /\ GenOff

Validate ==
    /\ op = "input"
    /\ op' = "validate_article"
    /\ out' = validate_article(html)
    /\ UNCHANGED <<html, keyword, num, out2, gen_vars>>

NextVal == Validate

SpecVal == InitVal /\ [][NextVal]_vars

----------------------------------------------------------------------------
(* The preview and the publish handler.  session_state holds assembled_html, *)
(* edited_html and use_edited; widgets the title and the co-occurrence      *)
(* terms; locals the issues shown; calls the contents posted to the CMS.    *)

FragBr == <<"<", "b", "r", ">">>

PubFrags == {FragA, FragPa, FragUL, FragBr, <<"\n">>}
PubDocs == {Concat(fs) : fs \in SeqsUpTo(PubFrags, MaxPubFrags)}

\* what the editing text area may hold for a generated document
EditedChoices(assembled) ==
    {assembled, <<>>, <<" ">>, assembled \o FragBr, FragPa \o <<"\n">>}

Titles == {<<>>, <<" ">>, <<"t">>}

\* co_terms: the sorted list of distinct terms
CoTermChoices == {<<>>, << <<"a">>, <<"z">> >>}

InitPub ==
    /\ op = "input"
    /\ html = <<>>
    /\ keyword \in GenKeywords
    /\ num = 0
    /\ out = <<>>
    /\ out2 = <<>>
    /\ pc = "idle"
    /\ \E assembled \in PubDocs :
           session_state \in [assembled_html : {assembled},
                              edited_html : EditedChoices(assembled),
                              use_edited : BOOLEAN]
    /\ widgets \in [title : Titles, co_terms : CoTermChoices]
    /\ locals = [issues |-> <<>>, missing |-> <<>>]
    /\ calls = [posts |-> <<>>]
    /\ llm = <<>>
    /\ cache = NoCache

\* [w for w in co_terms if w.lower() not in plain]
RECURSIVE MissingTerms(_, _)
MissingTerms(co_terms, plain) ==
    IF co_terms = <<>> THEN <<>>
    ELSE (IF ~Contains(plain, LowerSeq(Head(co_terms))) THEN <<Head(co_terms)>> ELSE <<>>)
             \o MissingTerms(Tail(co_terms), plain)

\* the preview: the assembled document is validated and checked for the
\* co-occurrence terms, and the issues are shown
Preview ==
    /\ pc = "idle"
    /\ LET assembled == session_state.assembled_html
           missing == MissingTerms(widgets.co_terms, LowerSeq(SubTags(assembled, 1, FALSE)))
       IN  locals' = IF assembled = <<>>
                     THEN [issues |-> <<>>, missing |-> <<>>]
                     ELSE [issues |-> validate_article(assembled)
                                        \o (IF missing # <<>> THEN <<"co_terms_missing">> ELSE <<>>),
                           missing |-> missing]
    /\ pc' = "previewed"
    /\ UNCHANGED <<fun_vars, session_state, widgets, calls, llm, cache>>

\* the document the publish handler takes
content_html == strip(IF session_state.use_edited THEN session_state.edited_html
                      ELSE session_state.assembled_html)

\* the guards of the publish handler, with one more that asks for no issues
PubInputsGivenNoIssues ==
    /\ strip(keyword) # <<>>
    /\ strip(widgets.title) # <<>>
    /\ content_html # <<>>
    /\ locals.issues = <<>>

\* the three guards of the publish handler
PubInputsGiven ==
    /\ strip(keyword) # <<>>
    /\ strip(widgets.title) # <<>>
    /\ content_html # <<>>

\* st.error(...); st.stop(): nothing is sent
PublishStopped ==
    /\ pc = "previewed"
    /\ ~PubInputsGiven
    /\ pc' = "stopped"
    /\ UNCHANGED <<fun_vars, session_state, widgets, locals, calls, llm, cache>>

\* wp_post: the payload goes to the first URL and, when that is not answered
\* with 200 or 201, to the second
Publish ==
    /\ pc = "previewed"
    /\ PubInputsGiven
    /\ \E content \in simplify_html(content_html), first_ok \in BOOLEAN, second_ok \in BOOLEAN :
           /\ calls' = [posts |-> IF first_ok THEN <<content>> ELSE <<content, content>>]
           /\ pc' = IF first_ok \/ second_ok THEN "published" ELSE "publish_failed"
    /\ UNCHANGED <<fun_vars, session_state, widgets, locals, llm, cache>>

NextPub == Preview \/ PublishStopped \/ Publish

SpecPub == InitPub /\ [][NextPub]_vars

----------------------------------------------------------------------------
(* The outline handler.  session_state holds readers, needs and             *)
(* structure_html; widgets min_h2 and max_h2; locals the structure while    *)
(* the handler runs.  "c1", "c2", "c3" are the circled digits 1, 2, 3.      *)

MaxH2Floor == 3      \* min_value of the number input max_h2
MinH2Floor == 1      \* min_value of the number input min_h2

\* re.search(open + r'[^\n]*\n(.+?)\n\n' + close, raw, re.DOTALL) from
\* position i on: group 1, or <<>> when there is no match
RECURSIVE BetweenMarks(_, _, _, _)
BetweenMarks(raw, open, close, i) ==
    LET o == IndexOf(raw, i, open)
        nl == IF o = 0 THEN 0 ELSE IndexOf(raw, o + 1, "\n")
        ends == IF nl = 0 THEN {}
                ELSE {k \in (nl + 2)..(Len(raw) - 2) :
                          raw[k] = "\n" /\ raw[k + 1] = "\n" /\ raw[k + 2] = close}
    IN  IF o = 0 THEN <<>>
        ELSE IF ends # {}
             THEN LET k == CHOOSE e \in ends : \A f \in ends : e <= f
                  IN  SubSeq(raw, nl + 1, k - 1)
             ELSE BetweenMarks(raw, open, close, o + 1)

\* re.search(r'③[^\n]*\n(.+)$', raw, re.DOTALL): group 1, or <<>>
AfterMark(raw, open) ==
    LET o == IndexOf(raw, 1, open)
        nl == IF o = 0 THEN 0 ELSE IndexOf(raw, o + 1, "\n")
    IN  IF nl = 0 \/ nl = Len(raw) THEN <<>>
        ELSE SubSeq(raw, nl + 1, Len(raw))

\* s.replace("\r", "")
RECURSIVE RemoveCR(_)
RemoveCR(s) ==
    IF s = <<>> THEN <<>>
    ELSE (IF Head(s) = "\r" THEN <<>> ELSE <<Head(s)>>) \o RemoveCR(Tail(s))

\* the two steps before the structure is stored: the cut to max_h2 and the
\* closing header, with max_h2 as the total
FinishStructure(structure_html, kw, max_h2) ==
    enforce_summary_last(IF count_h2(structure_html) > max_h2
                         THEN trim_h2_max(structure_html, max_h2)
                         ELSE structure_html,
                         kw, max_h2)

FragAA == FragA \o <<"\n">> \o FragA                        \* two headers

OutFrags == {FragA, FragAA, FragSummary, <<"x">>, <<"\r", "\n">>}
OutDocs == {Concat(fs) : fs \in SeqsUpTo(OutFrags, MaxOutFrags)}

ReadersPart == <<"c1", "\n", "r", "\n", "\n", "c2", "\n", "n", "\n", "\n">>

\* what the LLM answers to the outline request
OutlineAnswers ==
    {ReadersPart \o <<"c3", "\n">> \o d : d \in OutDocs}
        \cup {<<>>, ReadersPart, <<"c3">> \o FragA, <<"c3", "\n">> \o FragA}

\* what the LLM answers to the request for more headers
FillH2Answers == {<<>>, <<"x">>, FragA, FragAA, FragSummary \o <<"\n">>}

NoOutline == [readers |-> <<>>, needs |-> <<>>, structure_html |-> <<>>]

InitOut ==
    /\ op = "input"
    /\ html = <<>>
    /\ keyword \in GenKeywords
    /\ num = 0
    /\ out = <<>>
    /\ out2 = <<>>
    /\ pc = "idle"
    /\ session_state = NoOutline
    /\ widgets \in [min_h2 : MinH2Floor..MaxH2Top, max_h2 : MaxH2Floor..MaxH2Top]
    /\ locals = [structure_html |-> <<>>]
    /\ calls = [requests |-> 0]
    /\ llm = <<>>
    /\ cache = NoCache

\* st.error(...); st.stop()
OutlineStopped ==
    /\ pc = "idle"
    /\ strip(keyword) = <<>>
    /\ pc' = "stopped"
    /\ UNCHANGED <<fun_vars, session_state, widgets, locals, calls, llm, cache>>

\* call_gemini raises: the handler ends with nothing stored
OutlineFailed ==
    /\ pc = "idle"
    /\ strip(keyword) # <<>>
    /\ pc' = "failed"
    /\ calls' = [requests |-> calls.requests + 1]
    /\ llm' = Raises
    /\ UNCHANGED <<fun_vars, session_state, widgets, locals, cache>>

\* the outline request is answered: readers and needs are stored, the
\* structure is sanitized and cut, and either more headers are asked for or
\* the structure is finished and stored
Outline ==
    /\ pc = "idle"
    /\ strip(keyword) # <<>>
    /\ \E outline_raw \in OutlineAnswers :
         /\ llm' = outline_raw
         /\ \E structure_html \in simplify_html(RemoveCR(strip(AfterMark(outline_raw, "c3")))) :
              LET cut == IF count_h2(structure_html) > widgets.max_h2
                         THEN trim_h2_max(structure_html, widgets.max_h2)
                         ELSE structure_html
                  stored == [readers |-> strip(BetweenMarks(outline_raw, "c1", "c2", 1)),
                             needs |-> strip(BetweenMarks(outline_raw, "c2", "c3", 1)),
                             structure_html |-> session_state.structure_html]
              IN  IF count_h2(cut) < widgets.min_h2
                  THEN /\ pc' = "fill"
                       /\ locals' = [structure_html |-> cut]
                       /\ session_state' = stored
                  ELSE /\ pc' = "done"
                       /\ locals' = [structure_html |-> FinishStructure(cut, keyword, widgets.max_h2)]
                       /\ session_state' = [stored EXCEPT !.structure_html =
                                               FinishStructure(cut, keyword, widgets.max_h2)]
    /\ calls' = [requests |-> calls.requests + 1]
    /\ UNCHANGED <<fun_vars, widgets, cache>>

\* call_gemini raises on the request for more headers
FillH2Failed ==
    /\ pc = "fill"
    /\ pc' = "failed"
    /\ calls' = [requests |-> calls.requests + 1]
    /\ llm' = Raises
    /\ UNCHANGED <<fun_vars, session_state, widgets, locals, cache>>

\* the request for more headers is answered: the answer is appended when it
\* holds a header, and the structure is finished and stored
FillH2 ==
    /\ pc = "fill"
    /\ \E answer \in FillH2Answers :
         /\ llm' = answer
         /\ \E add \in simplify_html(strip(answer)) :
              LET filled == IF count_h2(add) > 0
                            THEN rstrip(locals.structure_html) \o <<"\n", "\n">> \o strip(add)
                            ELSE locals.structure_html
                  final == FinishStructure(filled, keyword, widgets.max_h2)
              IN  /\ locals' = [structure_html |-> final]
                  /\ session_state' = [session_state EXCEPT !.structure_html = final]
    /\ pc' = "done"
    /\ calls' = [requests |-> calls.requests + 1]
    /\ UNCHANGED <<fun_vars, widgets, cache>>

NextOut == OutlineStopped \/ OutlineFailed \/ Outline \/ FillH2Failed \/ FillH2

SpecOut == InitOut /\ [][NextOut]_vars

----------------------------------------------------------------------------
(* Inputs of the closing-section operations. *)

\* <h2>kに関するまとめ</h2>, the header the enforcer writes for the keyword k
FragCanon == H2Open \o <<"k">> \o SummarySuffix \o H2Close

CapFrags == {FragSummary, FragCanon, FragA, FragPa, FragPbc, <<"x">>}
CapDocs == {Concat(fs) : fs \in SeqsUpTo(CapFrags, MaxCapFrags)}

InitCap ==
    /\ op = "input"
    /\ html \in CapDocs
    /\ keyword \in Keywords
    /\ num \in 0..MaxLimit
    /\ out = <<>>
    /\ out2 = <<>>
    /\ GenOff

CapSummary ==
    /\ op = "input"
    /\ op' = "cap_summary"
    /\ out' = cap_summary(html, num)
    /\ UNCHANGED <<html, keyword, num, out2, gen_vars>>

AppendFallback ==
    /\ op = "input"
    /\ op' = "_append_fallback_summary"
    /\ out' = _append_fallback_summary(html)
    /\ UNCHANGED <<html, keyword, num, out2, gen_vars>>

NextCap == CapSummary \/ AppendFallback

SpecCap == InitCap /\ [][NextCap]_vars

----------------------------------------------------------------------------
(* The policy presets.  session_state holds policy_store (a function from  *)
(* preset names to texts), active_policy and policy_text, and fresh while  *)
(* the session has no key yet; cache is the file at CACHE_PATH; calls the  *)
(* button handled last, locals the files read so far.  One run of the      *)
(* script is StartScript, the uploader, the select box with the text area, *)
(* and the buttons.                                                        *)

DEFAULT_PRESET_NAME == "default"
DEFAULT_POLICY_TXT == "d"

PresetNames == {DEFAULT_PRESET_NAME, "a", "b"}
PolicyTexts == {DEFAULT_POLICY_TXT, "t"}

\* store[name] = text
Put(store, name, text) ==
    [n \in DOMAIN store \cup {name} |-> IF n = name THEN text ELSE store[n]]

\* del store[name]
Del(store, name) == [n \in DOMAIN store \ {name} |-> store[n]]

\* {DEFAULT_PRESET_NAME: DEFAULT_POLICY_TXT}
DefaultStore == [n \in {DEFAULT_PRESET_NAME} |-> DEFAULT_POLICY_TXT]

FreshSession ==
    [fresh |-> TRUE, policy_store |-> DefaultStore,
     active_policy |-> DEFAULT_PRESET_NAME, policy_text |-> DEFAULT_POLICY_TXT]

InitPre ==
    /\ op = "input"
    /\ html = <<>>
    /\ keyword = <<>>
    /\ num = 0
    /\ out = <<>>
    /\ out2 = <<>>
    /\ pc = "waiting"
    /\ session_state = FreshSession
    /\ widgets = [structure_html |-> <<>>]
    /\ locals = [files_read |-> 0]
    /\ calls = [last |-> "none"]
    /\ llm = <<>>
    /\ cache = NoCache

\* save_policies_to_cache: the pair is written, or the write raises and the
\* file is left as it was or left unreadable (which load treats as absent)
SaveOutcomes(store, active_name) ==
    {[exists |-> TRUE, policy_store |-> store, active_policy |-> active_name],
     cache, NoCache}

\* session initialisation: the defaults of a new session, the cache load and
\* the repair of a store without the default preset; line 707 reads
\* policy_store[active_policy] and raises KeyError when that is no key
StartScript ==
    /\ pc = "waiting"
    /\ LET store1 == IF session_state.fresh THEN DefaultStore ELSE session_state.policy_store
           active1 == IF session_state.fresh THEN DEFAULT_PRESET_NAME
                      ELSE session_state.active_policy
           store2 == IF cache.exists /\ DOMAIN cache.policy_store # {}
                     THEN cache.policy_store ELSE store1
           active2 == IF cache.exists /\ cache.active_policy \in DOMAIN store2
                      THEN cache.active_policy ELSE active1
           repair == DEFAULT_PRESET_NAME \notin DOMAIN store2
           store3 == IF repair THEN Put(store2, DEFAULT_PRESET_NAME, DEFAULT_POLICY_TXT)
                     ELSE store2
           active3 == IF repair /\ active2 \notin DOMAIN store3
                      THEN DEFAULT_PRESET_NAME ELSE active2
       IN  IF active3 \in DOMAIN store3
           THEN /\ session_state' =
                       [fresh |-> FALSE, policy_store |-> store3, active_policy |-> active3,
                        policy_text |-> IF session_state.fresh THEN store3[active3]
                                        ELSE session_state.policy_text]
                /\ pc' = "uploader"
           ELSE /\ session_state' =
                       [session_state EXCEPT !.fresh = FALSE, !.policy_store = store3,
                                             !.active_policy = active3]
                /\ pc' = "crashed"
    /\ UNCHANGED <<fun_vars, widgets, locals, calls, llm, cache>>

\* a file of the uploader: its name without the extension, its text, and
\* whether reading it succeeds
FileChoices == [name : PresetNames, raw : PolicyTexts, readable : BOOLEAN]

\* one turn of the for loop over pol_files: the file is stored and made
\* active, or its reading fails and a warning is shown
ReadFile ==
    /\ pc \in {"uploader", "reading"}
    /\ locals.files_read < MaxFiles
    /\ \E f \in FileChoices :
         session_state' = IF f.readable
                          THEN [session_state EXCEPT
                                    !.policy_store = Put(session_state.policy_store, f.name, f.raw),
                                    !.active_policy = f.name,
                                    !.policy_text = f.raw]
                          ELSE session_state
    /\ locals' = [files_read |-> locals.files_read + 1]
    /\ pc' = "reading"
    /\ UNCHANGED <<fun_vars, widgets, calls, llm, cache>>

\* after the last file the cache is written
FilesRead ==
    /\ pc = "reading"
    /\ cache' \in SaveOutcomes(session_state.policy_store, session_state.active_policy)
    /\ locals' = [files_read |-> 0]
    /\ pc' = "selectbox"
    /\ UNCHANGED <<fun_vars, session_state, widgets, calls, llm>>

\* the uploader is empty
NoUpload ==
    /\ pc = "uploader"
    /\ pc' = "selectbox"
    /\ UNCHANGED <<fun_vars, session_state, widgets, locals, calls, llm, cache>>

\* the select box gives one of the names of the store; another name than the
\* active one is made active and the cache written; the text area then gives
\* the policy text, as it is or as the user typed it
Select ==
    /\ pc = "selectbox"
    /\ \E sel_name \in DOMAIN session_state.policy_store, typed \in BOOLEAN, text \in PolicyTexts :
         LET changed == sel_name # session_state.active_policy
             shown == IF changed THEN session_state.policy_store[sel_name]
                      ELSE session_state.policy_text
         IN  /\ session_state' = [session_state EXCEPT !.active_policy = sel_name,
                                      !.policy_text = IF typed THEN text ELSE shown]
             /\ IF changed
                THEN cache' \in SaveOutcomes(session_state.policy_store, sel_name)
                ELSE cache' = cache
    /\ pc' = "buttons"
    /\ UNCHANGED <<fun_vars, widgets, locals, calls, llm>>

\* the delete button is enabled whatever preset is active
can_delete_any ==
    session_state.active_policy \in DOMAIN session_state.policy_store

\* can_delete: the delete button is enabled
can_delete ==
    /\ session_state.active_policy # DEFAULT_PRESET_NAME
    /\ Cardinality(DOMAIN session_state.policy_store) > 1
    /\ session_state.active_policy \in DOMAIN session_state.policy_store

\* "この内容で上書き保存"
Overwrite ==
    /\ pc = "buttons"
    /\ session_state' = [session_state EXCEPT !.policy_store =
                            Put(session_state.policy_store, session_state.active_policy,
                                session_state.policy_text)]
    /\ cache' \in SaveOutcomes(session_state'.policy_store, session_state'.active_policy)
    /\ calls' = [last |-> "overwrite"]
    /\ pc' = "waiting"
    /\ UNCHANGED <<fun_vars, widgets, locals, llm>>

\* "このプリセットを削除": the active preset is removed and the default one
\* made active, put back first when it is missing
Delete ==
    /\ pc = "buttons"
    /\ can_delete
    /\ LET removed == Del(session_state.policy_store, session_state.active_policy)
           store == IF DEFAULT_PRESET_NAME \in DOMAIN removed THEN removed
                    ELSE Put(removed, DEFAULT_PRESET_NAME, DEFAULT_POLICY_TXT)
       IN  /\ session_state' = [session_state EXCEPT !.policy_store = store,
                                    !.active_policy = DEFAULT_PRESET_NAME,
                                    !.policy_text = store[DEFAULT_PRESET_NAME]]
           /\ cache' \in SaveOutcomes(store, DEFAULT_PRESET_NAME)
    /\ calls' = [last |-> "delete"]
    /\ pc' = "waiting"
    /\ UNCHANGED <<fun_vars, widgets, locals, llm>>

\* "プリセットを初期状態に戻す"
Reset ==
    /\ pc = "buttons"
    /\ session_state' = [session_state EXCEPT !.policy_store = DefaultStore,
                             !.active_policy = DEFAULT_PRESET_NAME,
                             !.policy_text = DEFAULT_POLICY_TXT]
    /\ cache' \in SaveOutcomes(DefaultStore, DEFAULT_PRESET_NAME)
    /\ calls' = [last |-> "reset"]
    /\ pc' = "waiting"
    /\ UNCHANGED <<fun_vars, widgets, locals, llm>>

\* no preset button was pressed in this run
NoButton ==
    /\ pc = "buttons"
    /\ calls' = [last |-> "none"]
    /\ pc' = "waiting"
    /\ UNCHANGED <<fun_vars, session_state, widgets, locals, llm, cache>>

\* the page is opened anew: st.session_state is empty, the cache file stays
NewSession ==
    /\ pc = "waiting"
    /\ ~session_state.fresh
    /\ session_state' = FreshSession
    /\ UNCHANGED <<fun_vars, pc, widgets, locals, calls, llm, cache>>

NextPre ==
    \/ StartScript \/ ReadFile \/ FilesRead \/ NoUpload \/ Select
    \/ Overwrite \/ Delete \/ Reset \/ NoButton \/ NewSession

SpecPre == InitPre /\ [][NextPre]_vars

----------------------------------------------------------------------------
(* Properties of the level-2 operations. *)

\* the level-2 sections of s: each from its header to the next header or the end
Sections(s) ==
    LET ms == H2Finditer(s, 1) IN
    [i \in 1..Len(ms) |->
        Slice(s, ms[i].start, IF i < Len(ms) THEN ms[i + 1].start ELSE Len(s) + 1)]

\* the text before the first level-2 header (the whole document when there is none)
PreText(s) ==
    LET ms == H2Finditer(s, 1) IN
    IF ms = <<>> THEN s ELSE Slice(s, 1, ms[1].start)

\* the indices of the headers of s whose title does not contain the marker
ContentIdx(s) ==
    LET ms == H2Finditer(s, 1) IN
    {i \in 1..Len(ms) : ~IsSummaryTitle(H2Title(s, ms[i]))}

RECURSIVE SelectSections(_, _, _)
SelectSections(secs, keep, i) ==
    IF i > Len(secs) THEN <<>>
    ELSE (IF i \in keep THEN <<secs[i]>> ELSE <<>>) \o SelectSections(secs, keep, i + 1)

\* the sections of s whose title does not contain the marker, in document order
ContentSections(s) == SelectSections(Sections(s), ContentIdx(s), 1)

EndsWith(s, t) == Len(s) >= Len(t) /\ SubSeq(s, Len(s) - Len(t) + 1, Len(s)) = t

\* C1: enforce_summary_last applied to its own output, with the same keyword
\* and total, returns that output unchanged.
C1_EnforceIdempotent ==
    op = "enforce_summary_last_twice" => out2 = out

\* C2: the output of enforce_summary_last has min(c, max(total - 1, 0)) + 1
\* level-2 headers, c being the number of headers of the input whose title does
\* not contain the marker; the output ends with the canonical closing header,
\* the last header's title contains the keyword followed by the canonical
\* suffix, and no other header's title contains the marker.
C2_ClosingCount ==
    op = "enforce_summary_last" =>
        LET ms == H2Finditer(out, 1)
            c == Cardinality(ContentIdx(html))
        IN  /\ Len(ms) = Min(c, Max(num - 1, 0)) + 1
            /\ EndsWith(out, summary_h2(keyword))
            /\ ms[Len(ms)].end = Len(out)
            /\ Contains(H2Title(out, ms[Len(ms)]), keyword \o SummarySuffix)
            /\ ContentIdx(out) = 1..(Len(ms) - 1)

\* a C2 case: three headers, one of them a closing one, and a budget that
\* drops one of the two content sections
C2_Witness ==
    /\ op = "enforce_summary_last"
    /\ num = 2
    /\ count_h2(html) = 3
    /\ Cardinality(ContentIdx(html)) = 2
    /\ count_h2(out) = 2

\* the positions at which the literal pat occurs in s
Occurrences(s, pat) == {i \in 1..Len(s) : MatchAt(s, i, pat)}

\* every <h2> of s opens a header and every </h2> closes one
H2WellFormed(s) ==
    LET ms == H2Finditer(s, 1) IN
    /\ Occurrences(s, H2Open) = {ms[i].start : i \in 1..Len(ms)}
    /\ Occurrences(s, H2Close) = {ms[i].end - Len(H2Close) : i \in 1..Len(ms)}

\* the scenario of C3: three level-2 sections and no header tag outside them,
\* exactly one with a marker title, that one with a body, and total_h2 = 4
C3_Scenario ==
    /\ count_h2(html) = 3
    /\ H2WellFormed(html)
    /\ Cardinality(ContentIdx(html)) = 2
    /\ \E i \in (1..3) \ ContentIdx(html) :
           Len(Sections(html)[i]) > H2Finditer(html, 1)[i].end - H2Finditer(html, 1)[i].start
    /\ num = 4

\* what the scenario says of the first two sections and of the closing one,
\* which is section n of the output
C3_Shape(n) ==
    LET secs == Sections(out)
        orig == ContentSections(html)
    IN  /\ Len(secs) = n
        /\ \A i \in 1..2 : rstrip(secs[i]) = rstrip(orig[i])
        /\ rstrip(secs[n]) = H2Open \o keyword \o SummarySuffix \o H2Close

\* C3 as stated: in the scenario the output has exactly 4 level-2 sections, the
\* first 2 the original content sections and the 4th the canonical closing
\* header with an empty body.
C3_FourSections ==
    (op = "enforce_summary_last" /\ C3_Scenario) => C3_Shape(4)

\* C3 amended: in the scenario the output has exactly 3 level-2 sections, the
\* first 2 the original content sections and the 3rd the canonical closing
\* header with an empty body.
C3_ThreeSections ==
    (op = "enforce_summary_last" /\ C3_Scenario) => C3_Shape(3)

C3_Witness ==
    /\ op = "enforce_summary_last"
    /\ C3_Scenario
    /\ count_h2(out) = 3

\* C4: trim_h2_max(D, N) has at most N level-2 headers; it is the prefix of D
\* made of the pre-text and the first min(N, count_h2(D)) sections, so the
\* pre-text alone for N = 0 and D itself for N >= count_h2(D).
C4_SectionBudget ==
    op = "trim_h2_max" =>
        LET ms == H2Finditer(html, 1)
            k == Min(num, Len(ms))
        IN  /\ count_h2(out) <= num
            /\ count_h2(out) = k
            /\ out = PreText(html) \o Concat(SubSeq(Sections(html), 1, k))
            /\ (num = 0 => out = PreText(html))
            /\ (num >= Len(ms) => out = html)

\* a C4 case: a document with pre-text and more headers than the budget
C4_Witness ==
    /\ op = "trim_h2_max"
    /\ num = 1
    /\ count_h2(html) = 3
    /\ PreText(html) # <<>>
    /\ count_h2(out) = 1
    /\ out # html

\* C5: strip_existing_summary_h2 deletes exactly the sections whose title
\* contains the marker; the pre-text and every other section stay, in order,
\* up to the whitespace trimmed at both ends.
C5_StripPreserves ==
    op = "strip_existing_summary_h2" =>
        out = strip(PreText(html) \o Concat(ContentSections(html)))

----------------------------------------------------------------------------
(* Properties of the length operations. *)

\* the number of leading units of parts that fit the limit together: the
\* largest k with the visible length of the first k units within the limit
LongestRun(parts, limit) ==
    LET fits == {k \in 0..Len(parts) :
                    visible_length(Concat(SubSeq(parts, 1, k))) <= limit}
    IN  CHOOSE k \in fits : \A j \in fits : j <= k

\* C6: trim_to_max_chars(D, L) has visible length at most L and at most that
\* of D, and is D itself when D is within the limit.
C6_LengthMonotone ==
    op = "trim_to_max_chars" =>
        /\ visible_length(out) <= num
        /\ visible_length(out) <= visible_length(html)
        /\ (visible_length(html) <= num => out = html)

\* a C6 case: a document over the limit of which whole units are kept
C6_Witness ==
    /\ op = "trim_to_max_chars"
    /\ visible_length(html) > num
    /\ num > 0
    /\ visible_length(out) = num
    /\ Len(out) > num

\* C7: trim_to_max_chars(D, L) is the concatenation of the longest run of whole
\* leading units of D whose visible length together is at most L, also when the
\* first unit alone is over the limit.
C7_WholeUnits ==
    op = "trim_to_max_chars" =>
        LET units == PFindall(html, 1, FALSE) IN
        out = Concat(SubSeq(units, 1, LongestRun(units, num)))

----------------------------------------------------------------------------
(* Properties of the sanitizer. *)

\* C8: simplify_html applied to its own output returns that output unchanged.
C8_SanitizerClosure ==
    op = "simplify_html_twice" => out2 = out

\* C9: the output of simplify_html holds no opening or closing tag whose name,
\* compared case-insensitively, is outside the whitelist, and no line-break tag
\* in any form.
C9_Whitelist ==
    op = "simplify_html" =>
        /\ \A tag \in TagNames(out, 1) : LowerSeq(tag) \in ALLOWED_TAGS
        /\ SubBr(out, 1) = out

\* how a run of the handler can end
GenEnded == pc \in {"stopped", "failed", "done"}

LoopBound ==
    /\ calls.iterations <= widgets.max_adjust_tries
    /\ calls.fill_requests <= widgets.max_adjust_tries
    /\ calls.last = "trim" => pc \in {"after_loop", "done"}
    /\ calls.last = "exhausted" => pc \in {"after_loop", "done"}
    /\ pc = "failed" => calls = NoCalls

\* the loop is left with the document it holds when tries reaches max_adjust_tries
ExhaustedKeepsDocument ==
    (pc = "loop" /\ ~(locals.tries < widgets.max_adjust_tries))
        => (pc' = "after_loop" /\ locals' = locals)

\* C10: with strict control and at most T attempts, the fill/trim loop ends,
\* its body runs at most T times and sends at most T fill requests, no
\* iteration follows a trim, and reaching T leaves the loop with the current
\* document, without an error.
C10_LoopBound ==
    /\ []LoopBound
    /\ [][ExhaustedKeepsDocument]_vars
    /\ <>GenEnded

\* a run with strict control and T = 3 in which the loop trimmed the document
\* in its first iteration and the handler ended
C10_Witness ==
    /\ pc = "done"
    /\ widgets.strict_chars
    /\ widgets.max_adjust_tries = MaxAdjustTries
    /\ calls.last = "trim"
    /\ calls.iterations = 1
    /\ visible_length(session_state.edited_html) <= widgets.max_chars

----------------------------------------------------------------------------
(* Properties of the fill step. *)

\* the loop stands before an iteration that has to fill: attempts remain, the
\* document is shorter than min_chars and need is positive
FillDue ==
    /\ pc = "loop"
    /\ locals.tries < widgets.max_adjust_tries
    /\ visible_length(locals.html_cur) < widgets.min_chars
    /\ Min(widgets.min_chars - visible_length(locals.html_cur),
           widgets.max_chars - visible_length(locals.html_cur)) > 0

\* the reply is a fragment that is usable once sanitized
UsableReply(reply) ==
    /\ reply # Raises
    /\ \A add \in simplify_html(strip(reply)) :
           add # <<>> /\ visible_length(add) >= Scaled(MinFillChars)

\* C11: when a fill is due and the LLM gives a usable fragment, the sanitized
\* fragment is appended to the document, which gets longer, and the loop
\* measures again.
C11_FillProgress ==
    [][(FillDue /\ UsableReply(llm)) =>
          /\ pc' = "loop"
          /\ \E add \in simplify_html(strip(llm)) :
                 locals'.html_cur = rstrip(locals.html_cur) \o <<"\n", "\n">> \o add
          /\ visible_length(locals'.html_cur) > visible_length(locals.html_cur)]_vars

\* the ways a fill attempt fails: the request raises, or its answer is empty
\* or too short once sanitized
FillFailures == {"fill_error", "fill_unusable"}

\* what the steps after the loop make of a document
AfterLoopResult(doc, max_chars) ==
    LET capped == cap_summary(doc, Scaled(SummaryLimit)) IN
    IF doc = <<>> THEN doc
    ELSE IF visible_length(capped) > max_chars
         THEN trim_to_max_chars(capped, max_chars) ELSE capped

\* the iteration that fails to fill leaves the loop with the document it had
FailedFillKeepsDocument ==
    (pc = "loop" /\ calls'.iterations = calls.iterations + 1 /\ calls'.last \in FillFailures)
        => (pc' = "after_loop" /\ locals'.html_cur = locals.html_cur)

\* after a failed fill the handler has not ended in an error, and once it is
\* done the document stored is what the later steps make of the document
\* held before the attempt
FailedFillStored ==
    calls.last \in FillFailures =>
        /\ pc \in {"after_loop", "done"}
        /\ pc = "done" =>
              /\ session_state.edited_html \in
                     {AfterLoopResult(IF full # <<>> /\ ~_has_summary(full)
                                      THEN _append_fallback_summary(full) ELSE full,
                                      widgets.max_chars) : full \in simplify_html(html)}
              /\ session_state.assembled_html = session_state.edited_html

\* C12: a fill attempt that fails (the request raises, or the fragment is
\* empty or too short) ends the loop with the document unchanged, no error
\* ends the handler, and the closing-section cap, the final cut and the
\* storing of the result still run.
C12_FillFailureRecovered ==
    /\ [][FailedFillKeepsDocument]_vars
    /\ []FailedFillStored
    /\ (calls.last \in FillFailures) ~> (pc = "done")

\* a run in which a fill attempt failed and the handler went on to cap the
\* closing section and store the result
C12_Witness ==
    /\ pc = "done"
    /\ calls.last \in FillFailures
    /\ calls.iterations = 1
    /\ session_state.edited_html # <<>>
    /\ session_state.assembled_html = session_state.edited_html

----------------------------------------------------------------------------
(* Properties of the validator. *)

\* the body of each level-2 section: from the end of its header to the start
\* of the next level-2 header, or to the end of the document
SectionBodies(s) ==
    LET ms == H2Finditer(s, 1) IN
    [i \in 1..Len(ms) |->
        Slice(s, ms[i].end, IF i < Len(ms) THEN ms[i + 1].start ELSE Len(s) + 1)]

\* the text opens a ul, ol or table element: a "<" followed by exactly that name
OpensListOrTable(body) ==
    \E i \in 1..Len(body) :
        /\ body[i] = "<"
        /\ LowerSeq(SubSeq(body, i + 1, WordEnd(body, i + 1) - 1))
               \in { <<"u", "l">>, <<"o", "l">>, <<"t", "a", "b", "l", "e">> }

SectionsWithoutList(s) ==
    {i \in DOMAIN SectionBodies(s) : ~OpensListOrTable(SectionBodies(s)[i])}

MissingListWarnings(warns) ==
    Cardinality({k \in 1..Len(warns) : warns[k] = "h2_without_list_or_table"})

\* C13: validate_article gives the missing list/table warning once for each
\* level-2 section that holds no ul, ol or table element and never for a
\* section that holds one: the warnings are as many as those sections.
C13_MissingListWarnings ==
    op = "validate_article" =>
        MissingListWarnings(out) = Cardinality(SectionsWithoutList(html))

\* a document of three sections, one with a list and two without
C13_Witness ==
    /\ op = "validate_article"
    /\ Len(SectionBodies(html)) = 3
    /\ Cardinality(SectionsWithoutList(html)) = 2
    /\ MissingListWarnings(out) = 2


----------------------------------------------------------------------------
(* Properties of the publish handler. *)

PubEnded == pc \in {"published", "publish_failed", "stopped"}
PubSent == pc \in {"published", "publish_failed"}

\* the document selected for publishing, as held in the session
PubSelected == IF session_state.use_edited THEN session_state.edited_html
               ELSE session_state.assembled_html

\* every request carries the same content, and there is at least one
PostsCarry(contents) ==
    /\ Len(calls.posts) >= 1
    /\ \A i \in 1..Len(calls.posts) : calls.posts[i] \in contents

\* C14 (as amended): whatever issues the preview showed, the publish handler
\* sends the CMS request whenever the keyword, the title and the selected
\* document are non-blank after stripping whitespace, and sends none when one
\* of them is blank; the content sent is simplify_html of the stripped
\* selected document.
C14_PublishNotBlocked ==
    PubEnded =>
        /\ PubSent <=> (strip(keyword) # <<>> /\ strip(widgets.title) # <<>>
                            /\ strip(PubSelected) # <<>>)
        /\ PubSent => PostsCarry(simplify_html(strip(PubSelected)))
        /\ ~PubSent => calls.posts = <<>>

\* a request was sent although the preview showed issues
C14_Witness ==
    /\ PubSent
    /\ locals.issues # <<>>
    /\ Len(calls.posts) >= 1

\* C14 (as stated): the request is sent whenever the keyword, the title and
\* the selected document are non-empty, none is sent when one of them is
\* empty, and the content sent is simplify_html of the selected document.
C14_PublishWheneverNonEmpty ==
    PubEnded =>
        /\ PubSent <=> (keyword # <<>> /\ widgets.title # <<>> /\ PubSelected # <<>>)
        /\ PubSent => PostsCarry(simplify_html(PubSelected))
        /\ ~PubSent => calls.posts = <<>>


----------------------------------------------------------------------------
(* Properties of the outline handler. *)

\* C15: when the outline handler has completed, with min_h2 <= max_h2, the
\* stored structure has at least min_h2 and at most max_h2 level-2 headers,
\* the closing header counted, whatever the LLM answered.
C15_H2Compliance ==
    (pc = "done" /\ widgets.min_h2 <= widgets.max_h2) =>
        /\ count_h2(session_state.structure_html) >= widgets.min_h2
        /\ count_h2(session_state.structure_html) <= widgets.max_h2


----------------------------------------------------------------------------
(* Properties of the closing-section cap. *)

\* the level-2 headers of s whose title holds the marker
ClosingHeaders(s) ==
    LET ms == H2Finditer(s, 1) IN
    {i \in 1..Len(ms) : Contains(H2Title(s, ms[i]), Marker)}

\* [start, end) of the closing section: from its header to the next level-2
\* header or to the end of the document
ClosingSpan(s) ==
    LET ms == H2Finditer(s, 1)
        i == CHOOSE c \in ClosingHeaders(s) : \A d \in ClosingHeaders(s) : c <= d
    IN  <<ms[i].start, IF i < Len(ms) THEN ms[i + 1].start ELSE Len(s) + 1>>

\* res is doc with the section [span[1], span[2]) replaced by a text of
\* visible length at most limit
CappedAt(doc, span, res, limit) ==
    LET head == Slice(doc, 1, span[1])
        tail == Slice(doc, span[2], Len(doc) + 1)
    IN  /\ Len(res) >= Len(head) + Len(tail)
        /\ SubSeq(res, 1, Len(head)) = head
        /\ SubSeq(res, Len(res) - Len(tail) + 1, Len(res)) = tail
        /\ visible_length(SubSeq(res, Len(head) + 1, Len(res) - Len(tail))) <= limit

\* C16: for every document with a level-2 header whose title holds the
\* marker, the closing section of cap_summary(html, limit) has a visible
\* length of at most limit, and the text before and after it is unchanged.
C16_ClosingCapped ==
    (op = "cap_summary" /\ ClosingHeaders(html) # {}) =>
        CappedAt(html, ClosingSpan(html), out, num)

\* the same for the documents whose first closing header is <h2>まとめ</h2>
CapExactHeader ==
    (op = "cap_summary" /\ _summary_span(html) # <<>>
        /\ ClosingHeaders(html) # {} /\ ClosingSpan(html) = _summary_span(html)) =>
        CappedAt(html, ClosingSpan(html), out, num)


----------------------------------------------------------------------------
(* Properties of the stored article. *)

\* C17: when the article generation handler has completed, the stored final
\* document holds a level-2 header whose title contains the closing marker,
\* whatever the LLM answered and whatever the settings of strict control,
\* min_chars, max_chars and attempts are.
C17_ClosingSectionStored ==
    pc = "done" => ClosingHeaders(session_state.edited_html) # {}

\* the same for the runs whose LLM answer held a closing header and was not
\* empty
ClosingSectionKept ==
    (pc = "done" /\ ClosingHeaders(html) # {}) =>
        ClosingHeaders(session_state.edited_html) # {}


\* the document as it leaves the sanitizer and the closing-section guard
Guarded(full) ==
    IF full # <<>> /\ ~_has_summary(full) THEN _append_fallback_summary(full) ELSE full

----------------------------------------------------------------------------
(* Properties of the sanitizer on whole tags. *)

\* the tags of s with an allowed name, in their order: the matches of
\* '</?(\w+)[^>]*>' from position i on whose name is in ALLOWED_TAGS
RECURSIVE AllowedTagSeq(_, _)
AllowedTagSeq(s, i) ==
    IF i > Len(s) THEN <<>>
    ELSE LET j == AfterSlash(s, i)
             e == WordEnd(s, j)
             gt == IndexOf(s, e, ">")
         IN  IF s[i] = "<" /\ e > j /\ gt # 0
             THEN (IF LowerSeq(Slice(s, j, e)) \in ALLOWED_TAGS
                   THEN <<Slice(s, i, gt + 1)>> ELSE <<>>)
                      \o AllowedTagSeq(s, gt + 1)
             ELSE AllowedTagSeq(s, i + 1)

\* C19: every occurrence of an allowed tag in the input of simplify_html is
\* still there, in the same order, in the output, whatever disallowed tags
\* the input holds, those whose name begins an allowed name too.
C19_AllowedTagsKept ==
    op = "simplify_html" => AllowedTagSeq(out, 1) = AllowedTagSeq(html, 1)


----------------------------------------------------------------------------
(* Properties of the policy presets. *)

\* the session initialisation has run
PresetsLoaded == ~session_state.fresh

PresetKeys ==
    PresetsLoaded =>
        /\ DEFAULT_PRESET_NAME \in DOMAIN session_state.policy_store
        /\ session_state.active_policy \in DOMAIN session_state.policy_store

\* what the cache file holds was written by save_policies_to_cache
CachePair ==
    cache.exists => cache.active_policy \in DOMAIN cache.policy_store

\* a step of the delete button
DeleteStep == pc = "buttons" /\ pc' = "waiting" /\ calls'.last = "delete"

DeleteGuarded ==
    DeleteStep =>
        /\ session_state.active_policy # DEFAULT_PRESET_NAME
        /\ DOMAIN session_state'.policy_store # {}
        /\ DOMAIN session_state'.policy_store =
               DOMAIN session_state.policy_store \ {session_state.active_policy}

\* C20: after any sequence of preset actions the default preset and
\* active_policy are keys of policy_store; the delete button never acts on
\* the default preset nor empties the store; and every cache write stores a
\* pair (policy_store, active_policy) with active_policy a key of that store.
C20_PresetStore ==
    /\ [](PresetKeys /\ CachePair /\ pc # "crashed")
    /\ [][DeleteGuarded]_vars

\* a preset was uploaded, then deleted, and the cache holds the store left
C20_Witness ==
    /\ pc = "waiting"
    /\ calls.last = "delete"
    /\ cache.exists
    /\ cache.policy_store = session_state.policy_store
    /\ Cardinality(DOMAIN session_state.policy_store) = 2

====
